---- MODULE Spec2Model ----
(***************************************************************************)
(* Model of the prediction pipeline of server-node: the predict            *)
(* controller in its five revisions, the appService revisions behind it,   *)
(* the retry helper and the axios-retry policy.                            *)
(*                                                                         *)
(* JavaScript values.  An optional value is a set: {} is undefined, {v}    *)
(* is the value v.  A parsed measurement is a set too: {} is NaN.          *)
(***************************************************************************)
EXTENDS Integers, Sequences, FiniteSets, TLC

(***************************************************************************)
(* Bounds of the model.                                                    *)
(***************************************************************************)
\* Largest number of named models in one scoring response.
MaxModels == 2

\* Largest confidence handed to the risk classification on its own.
MaxConfidence == 100

\* Largest number of patient rows in the store the read handlers query.
MaxRows == 2

\* Largest options.retries handed to retry alone.
MaxRetries == 3

(***************************************************************************)
(* Revisions.  The controller and the service exist in several revisions   *)
(* in the repository; the model runs each request under one controller     *)
(* revision and one service revision.                                      *)
(*   controller  "A"  Controller/appController.js 79-189                   *)
(*               "B"  Controller/appController.js 389-471                  *)
(*               "C"  Controller/appController.js 600-723                  *)
(*               "D"  unnamed/part_000 161-344 (retry helper, transaction) *)
(*               "E"  unnamed/part_001 79-188  (validating aggregation)    *)
(*   service     "F1" Service/appService.js 1-149                          *)
(*               "F2" Service/appService.js 151-288                        *)
(*               "F3" Service/appService.js 290-420                        *)
(*               "F4" Service/appService.js 422-585 (axios-retry)          *)
(*               "F5" unnamed/part_002                                     *)
(*               "F6" unnamed/part_003                                     *)
(***************************************************************************)
Revs == {"A", "B", "C", "D", "E"}

Svcs == {"F1", "F2", "F3", "F4", "F5", "F6"}

(***************************************************************************)
(* Optional values and the JavaScript operators the code applies to them.  *)
(***************************************************************************)
Undef == {}

\* let highestPercentage = -Infinity: below every confidence of the model.
NegInfinity == -1

\* Confidence values a scoring response may carry.
ConfVals == {0, 45, 95}

OptConf == {Undef} \cup {{c} : c \in ConfVals}

OptBool == {Undef, {TRUE}, {FALSE}}

\* a ?? b
Nullish(a, b) == IF a # Undef THEN a ELSE b

\* a < b on numbers; false as soon as one side is undefined.
Lt(a, b) == \E x \in a : \E y \in b : x < y

\* The comparison of the aggregation loop written >= and written <.
GtOrEqual(a, b) == \E x \in a : \E y \in b : x >= y

GtReversed(a, b) == \E x \in a : \E y \in b : x < y

\* a > b on numbers; false as soon as one side is undefined.
Gt(a, b) == \E x \in a : \E y \in b : x > y

(***************************************************************************)
(* Scoring responses: a mapping from model name to outcome, in insertion   *)
(* order.  Model names are the positions 1..n of the sequence.             *)
(***************************************************************************)
Outcomes ==
  { o \in [precentage : OptConf, percentage : OptConf,
           prediction : OptBool, Prediction : OptBool] :
      /\ (o.precentage # Undef /\ o.percentage # Undef) =>
            (o.precentage = {45} /\ o.percentage = {95})
      /\ o.Prediction # Undef => (o.prediction = Undef /\ o.Prediction = {TRUE}) }

SeqsUpTo(S, n) == UNION { [1..k -> S] : k \in 0..n }

Responses == SeqsUpTo(Outcomes, MaxModels)

(***************************************************************************)
(* Aggregation of the model outcomes, per controller revision.             *)
(***************************************************************************)
\* The confidence a revision reads from an outcome.
ConfOf(rev, o) ==
  CASE rev \in {"A", "C", "E"} -> o.precentage
    [] rev = "D" -> o.percentage
    [] rev = "B" -> Nullish(o.precentage, o.percentage)

\* The decision a revision reads from an outcome.
DecisionOf(rev, o) ==
  IF rev = "B" THEN Nullish(o.prediction, o.Prediction) ELSE o.prediction

NoAgg == [err |-> "none", model |-> 0, bestModel |-> 0,
          highest |-> Undef, finalPrediction |-> Undef]

\* A selection step that starts an empty response from defaults instead of
\* failing on its missing first model.
AggInitLenient(rev, resp) ==
  CASE rev = "E" ->
         [NoAgg EXCEPT !.err = "", !.highest = {NegInfinity}]
    [] rev = "B" /\ Len(resp) > 0 ->
         [NoAgg EXCEPT !.err = "", !.bestModel = 1,
                       !.highest = Nullish(ConfOf("B", resp[1]), {0}),
                       !.finalPrediction = Nullish(DecisionOf("B", resp[1]), {FALSE})]
    [] rev \in {"A", "C", "D"} /\ Len(resp) > 0 ->
         [NoAgg EXCEPT !.err = "", !.bestModel = 1,
                       !.highest = ConfOf(rev, resp[1]),
                       !.finalPrediction = DecisionOf(rev, resp[1])]
    [] OTHER ->
         [NoAgg EXCEPT !.err = "", !.highest = {0}, !.finalPrediction = {FALSE}]

\* The selection before the loop.
AggInit(rev, resp) ==
  CASE rev = "E" ->
         [NoAgg EXCEPT !.err = "", !.highest = {NegInfinity}]
    [] rev = "B" /\ Len(resp) > 0 ->
         [NoAgg EXCEPT !.err = "", !.bestModel = 1,
                       !.highest = Nullish(ConfOf("B", resp[1]), {0}),
                       !.finalPrediction = Nullish(DecisionOf("B", resp[1]), {FALSE})]
    [] rev \in {"A", "C", "D"} /\ Len(resp) > 0 ->
         [NoAgg EXCEPT !.err = "", !.bestModel = 1,
                       !.highest = ConfOf(rev, resp[1]),
                       !.finalPrediction = DecisionOf(rev, resp[1])]
    [] OTHER ->
         \* predictionResponse[undefined].precentage
         [NoAgg EXCEPT !.err = "TypeError"]

\* One iteration of the loop over the models.
AggStep(rev, acc, i, o) ==
  IF acc.err # "" THEN acc
  ELSE IF rev = "E" /\ (o.precentage = Undef \/ o.prediction = Undef)
       THEN [acc EXCEPT !.err = "Malformed", !.model = i]
  ELSE IF Gt(ConfOf(rev, o), acc.highest)
       THEN [acc EXCEPT !.bestModel = i,
                        !.highest = ConfOf(rev, o),
                        !.finalPrediction = DecisionOf(rev, o)]
  ELSE acc

RECURSIVE AggLoop(_, _, _, _)
AggLoop(rev, resp, i, acc) ==
  IF i > Len(resp) THEN acc
  ELSE AggLoop(rev, resp, i + 1, AggStep(rev, acc, i, resp[i]))

\* The whole aggregation step of a revision.
processPredictionResults(rev, resp) ==
  LET r == AggLoop(rev, resp, 1, AggInit(rev, resp))
  IN IF rev = "E" /\ r.err = "" /\ r.bestModel = 0
     THEN [r EXCEPT !.err = "NoValidModels"]
     ELSE r

(***************************************************************************)
(* Risk classification.                                                    *)
(***************************************************************************)
\* The classification with right-inclusive bands.
getRiskLevelInclusive(precentage) ==
  IF \E x \in precentage : x <= 40
  THEN [riskLevel |-> "Low", recommendation |-> "Maintain"]
  ELSE IF \E x \in precentage : x <= 70
  THEN [riskLevel |-> "Moderate", recommendation |-> "Monitor"]
  ELSE IF \E x \in precentage : x <= 90
  THEN [riskLevel |-> "High", recommendation |-> "Consult"]
  ELSE [riskLevel |-> "Critical", recommendation |-> "Immediate"]

getRiskLevel(precentage) ==
  IF Lt(precentage, {40})
  THEN [riskLevel |-> "Low", recommendation |-> "Maintain"]
  ELSE IF Lt(precentage, {70})
  THEN [riskLevel |-> "Moderate", recommendation |-> "Monitor"]
  ELSE IF Lt(precentage, {90})
  THEN [riskLevel |-> "High", recommendation |-> "Consult"]
  ELSE [riskLevel |-> "Critical", recommendation |-> "Immediate"]

(***************************************************************************)
(* Input normalisation.  The request body carries the raw age, one of      *)
(* the eight measurements, all of which the code treats alike.             *)
(***************************************************************************)
\* Raw values: absent, the strings "abc", "" and "5".
RawVals == {"undefined", "abc", "", "5"}

\* A body that also supplies a name and an owner of its own.
ForgedBody == [age |-> "5", name |-> "mallory", userId |-> {"u2"}]

Bodies == [age : RawVals] \cup {ForgedBody}

\* patientData.name and patientData.userId of a body: "" and Undef when the
\* body does not carry them.
BodyName(b) == IF "name" \in DOMAIN b THEN b.name ELSE ""

BodyUserId(b) == IF "userId" \in DOMAIN b THEN b.userId ELSE Undef

\* patientData[field] === undefined || isNaN(patientData[field])
InvalidField(raw) == raw \in {"undefined", "abc"}

\* parseInt(raw, 10): {} is NaN.
parseInt(raw) ==
  CASE raw = "1" -> {1}
    [] raw = "2" -> {2}
    [] raw = "3" -> {3}
    [] raw = "5" -> {5}
    [] OTHER -> {}

\* x || 0 on a parsed number.
OrZero(x) == IF x = {} \/ x = {0} THEN {0} ELSE x

\* The fields the validation loop walks, in its order; those a body does not
\* model are taken as valid.
fieldsToValidate == <<"age", "bmi">>

\* Bodies carrying two of the measurements.
ParseBodies == [age : RawVals, bmi : RawVals]

\* The field at which the validation loop throws; "" when it runs through.
FirstInvalid(b) ==
  LET bad == {i \in 1..Len(fieldsToValidate) :
                /\ fieldsToValidate[i] \in DOMAIN b
                /\ InvalidField(b[fieldsToValidate[i]])}
  IN IF bad = {} THEN ""
     ELSE fieldsToValidate[CHOOSE i \in bad : \A j \in bad : i <= j]

\* `Invalid or missing value for field: ${field}`
FieldError(field) ==
  CASE field = "age" -> "Invalid or missing value for field: age"
    [] field = "bmi" -> "Invalid or missing value for field: bmi"
    [] OTHER -> ""

\* The record parsePatientData returns; "throw" when validation fails.
parsePatientData(rev, b) ==
  IF FirstInvalid(b) # ""
  THEN [threw |-> TRUE, field |-> FirstInvalid(b), Age |-> {}, name |-> "", userId |-> Undef]
  ELSE [threw |-> FALSE, field |-> "",
        Age |-> IF rev = "B" THEN parseInt(b.age) ELSE OrZero(parseInt(b.age)),
        name |-> IF BodyName(b) = "" THEN "Unknown" ELSE BodyName(b),
        userId |-> BodyUserId(b)]

NoPatientData == [name |-> "", userId |-> Undef, Age |-> {}, prediction |-> Undef,
                  precentage |-> Undef, confidence |-> Undef,
                  riskLevel |-> "", recommendation |-> "", modelUsed |-> 0]

(***************************************************************************)
(* Collaborators.                                                          *)
(***************************************************************************)
\* Rows of the User table the lookup may find.
Users == {[name |-> "n1", email |-> "e1"], [name |-> "n1", email |-> ""]}

\* Results of one HTTP attempt of the scoring call.
HttpFailures == {"503", "4xx", "network", "timeout"}

\* Outcomes the pipeline receives from the scoring service.
PipeOutcomes ==
  { [precentage |-> {95}, percentage |-> Undef, prediction |-> {TRUE}, Prediction |-> Undef],
    [precentage |-> {45}, percentage |-> Undef, prediction |-> {FALSE}, Prediction |-> Undef],
    [precentage |-> Undef, percentage |-> {95}, prediction |-> {TRUE}, Prediction |-> Undef],
    [precentage |-> Undef, percentage |-> Undef, prediction |-> {TRUE}, Prediction |-> Undef],
    [precentage |-> {45}, percentage |-> {95}, prediction |-> Undef, Prediction |-> Undef] }

\* response.data: {} is an empty (falsy) body, {m} a mapping.
PipeResponses == {Undef} \cup {{m} : m \in SeqsUpTo(PipeOutcomes, MaxModels)}

\* Results of a write to the record store.
StoreFailures == {"P2003", "P2002", "other"}

\* retry(fn, {retries: 2, minTimeout: 1000, factor: 2})
RetryRetries == 2

MinTimeout == 1000

Factor == 2

\* The options predict hands to retry.
PredictOptions == [retries |-> RetryRetries, minTimeout |-> MinTimeout, factor |-> {Factor}]

\* axiosRetry(axios, {retries: 3, ...})
AxiosRetries == 3

\* retryCondition of the axios-retry policy.
retryCondition(fail) == fail \in {"network", "timeout", "503"}

\* The service revision installs the axios-retry policy.
HasAxiosRetry(s) == s = "F4"

\* The service revision rejects an empty response body.
ChecksEmptyData(s) == s \in {"F2", "F5"}

\* The body callPythonService posts: a record built field by field with
\* Number() or parseInt/parseFloat, or the record it was handed.
Payload(s, pd) ==
  IF s \in {"F1", "F4", "F6"} THEN [Age |-> pd.Age] ELSE pd

\* The message of the error callPythonService throws.
ServiceErrorMessage(s) ==
  CASE s \in {"F1", "F5", "F6"} -> "Failed to get a response from Python service"
    [] s = "F2" -> "Service failed"
    [] s \in {"F3", "F4"} -> "Prediction service unavailable"

(***************************************************************************)
(* State.                                                                  *)
(***************************************************************************)
VARIABLES
  rev,                \* controller revision serving the request
  svc,                \* service revision behind it
  reqUser,            \* req.user?.userId
  body,               \* req.body
  params,             \* req.params.id of the read handlers
  options,            \* the options object handed to retry
  pc,                 \* where the handler is suspended
  user,               \* result of prisma.user.findUnique
  patientData,        \* patientData / enrichedData of the handler
  predictionResponse, \* what callPythonService resolved with
  agg,                \* bestModel, highest percentage, finalPrediction
  patient,            \* the row createPatient / the transaction returned
  notification,       \* the row prisma.notification.create returned
  err,                \* message of the error the handler caught last
  retryCount,         \* retryCount of the retry helper
  axiosRetries,       \* retries axios-retry has made for the current call
  svcCalls,           \* invocations of callPythonService
  httpCalls,          \* HTTP attempts issued
  sent,               \* body of the last POST to the scoring service
  inFlight,           \* invocations of callPythonService not yet settled
  lastFail,           \* failure of the latest HTTP attempt, "none" if it succeeded
  failKinds,          \* "none", "503" (only 503 so far) or "mixed"
  delays,             \* timeouts the retry helper has set
  patients,           \* Patient table
  notifications,      \* Notification table
  storeFail,          \* cause of the failed patient write, "none" without one
  emails,             \* calls of transporter.sendMail
  mail,               \* "none", "pending", "ok", "failed"
  responses           \* responses sent to the caller

vars == <<rev, svc, reqUser, body, params, options, pc, user, patientData, predictionResponse, agg,
          patient, notification, err, retryCount, axiosRetries, svcCalls, httpCalls, sent, inFlight,
          lastFail,
          failKinds, delays, patients, notifications, storeFail, emails, mail,
          responses>>

inputVars == <<rev, svc, reqUser, body, params, options>>

scoreVars == <<retryCount, axiosRetries, svcCalls, httpCalls, sent, inFlight, lastFail,
               failKinds, delays>>

storeVars == <<patients, notifications, storeFail>>

mailVars == <<emails, mail>>

\* A response: res.status(status).json({error, ...}).
Reply(status, error) ==
  [status |-> status, error |-> error, prediction |-> Undef, precentage |-> Undef,
   riskLevel |-> "", recommendation |-> "", notification |-> Undef, modelUsed |-> 0]

\* The catch block around the whole handler.
OuterCatch(r, message) ==
  CASE r = "A" -> Reply(500, "Prediction process failed")
    [] r = "B" -> Reply(500, "Prediction failed")
    [] r = "C" -> Reply(500, "Internal server error")
    [] r = "D" -> Reply(500, "INTERNAL_ERROR")
    [] r = "E" -> Reply(500, message)

Idle ==
  /\ user = Undef
  /\ patientData = NoPatientData
  /\ predictionResponse = Undef
  /\ agg = NoAgg
  /\ patient = Undef
  /\ notification = Undef
  /\ err = ""
  /\ retryCount = 0
  /\ axiosRetries = 0
  /\ svcCalls = 0
  /\ httpCalls = 0
  /\ sent = Undef
  /\ inFlight = 0
  /\ lastFail = "none"
  /\ failKinds = "none"
  /\ delays = <<>>
  /\ patients = <<>>
  /\ notifications = <<>>
  /\ storeFail = "none"
  /\ emails = 0
  /\ mail = "none"
  /\ responses = <<>>

Init ==
  /\ rev \in Revs
  /\ svc \in Svcs
  /\ reqUser \in {Undef, {"u1"}}
  /\ body \in Bodies
  /\ params = ""
  /\ options = PredictOptions
  /\ pc = "start"
  /\ Idle

(***************************************************************************)
(* The predict handler, one action per stretch between two awaits.         *)
(***************************************************************************)
\* A handler that ends without sending its response.
FinishSilently(reply, message) ==
  /\ pc' = "done"
  /\ responses' = responses
  /\ err' = message

\* return res.status(...).json(...)
Finish(reply, message) ==
  /\ pc' = "done"
  /\ responses' = Append(responses, reply)
  /\ err' = message

\* Authentication check, then the user lookup is issued.
PredictStart ==
  /\ pc = "start"
  /\ IF reqUser = Undef
     THEN Finish(Reply(401, "AUTH_REQUIRED"), "")
     ELSE pc' = "lookup" /\ UNCHANGED <<responses, err>>
  /\ UNCHANGED <<inputVars, user, patientData, predictionResponse, agg, patient, notification,
                 scoreVars, storeVars, mailVars>>

\* prisma.user.findUnique rejects.
UserLookupThrows ==
  /\ pc = "lookup"
  /\ Finish(OuterCatch(rev, "user lookup failed"), "user lookup failed")
  /\ UNCHANGED <<inputVars, user, patientData, predictionResponse, agg, patient, notification,
                 scoreVars, storeVars, mailVars>>

\* if (!user ...) of the revision.
UserRejected(r, u) ==
  CASE r = "D" -> u = Undef
    [] r = "B" -> u = Undef \/ \E x \in u : x.email = ""
    [] OTHER -> u = Undef \/ \E x \in u : x.name = "" \/ x.email = ""

\* The record parsePatientData returned, as patientData.
ParsedData(r, b) ==
  [NoPatientData EXCEPT !.name = parsePatientData(r, b).name,
                        !.userId = parsePatientData(r, b).userId,
                        !.Age = parsePatientData(r, b).Age,
                        !.prediction = {FALSE},
                        !.precentage = {0}]

\* patientData with the user id and the user's name filled in only where the
\* body left them out.
EnrichedDataBodyFirst(r, b, u, uid) ==
  [ParsedData(r, b) EXCEPT !.name = IF BodyName(b) = ""
                                    THEN CHOOSE n \in {x.name : x \in u} : TRUE ELSE @,
                           !.userId = IF @ = Undef THEN uid ELSE @]

\* patientData once the user id and the user's name are put into it.
EnrichedData(r, b, u, uid) ==
  [ParsedData(r, b) EXCEPT !.name = CHOOSE n \in {x.name : x \in u} : TRUE,
                           !.userId = uid]

\* The lookup returns; the user is checked, the body parsed and the first
\* call of the scoring service issued.
UserLookupReturns ==
  /\ pc = "lookup"
  /\ \E u \in {Undef} \cup {{x} : x \in Users} :
       /\ user' = u
       /\ IF UserRejected(rev, u)
          THEN /\ Finish(Reply(IF rev = "D" THEN 403 ELSE 404, "USER_NOT_FOUND"), "")
               /\ UNCHANGED <<patientData, svcCalls, httpCalls, sent, inFlight>>
          ELSE LET p == parsePatientData(rev, body)
               IN IF p.threw
                  THEN /\ IF rev \in {"A", "B"}
                          THEN Finish(OuterCatch(rev, FieldError(p.field)), FieldError(p.field))
                          ELSE Finish(Reply(400, "INVALID_DATA"), FieldError(p.field))
                       /\ UNCHANGED <<patientData, svcCalls, httpCalls, sent, inFlight>>
                  ELSE /\ patientData' = EnrichedData(rev, body, u, reqUser)
                       /\ pc' = "score"
                       /\ svcCalls' = 1
                       /\ httpCalls' = 1
                       /\ sent' = {Payload(svc, EnrichedData(rev, body, u, reqUser))}
                       /\ inFlight' = inFlight + 1
                       /\ UNCHANGED <<responses, err>>
  /\ UNCHANGED <<inputVars, predictionResponse, agg, patient, notification, retryCount,
                 axiosRetries,
                 lastFail, failKinds, delays, storeVars, mailVars>>

\* A retry helper that answers the caller at each failed attempt and then
\* retries all the same.
ServiceThrowsAnswersEarly ==
  IF rev = "D"
  THEN IF retryCount >= RetryRetries
       THEN /\ Finish(Reply(503, "SERVICE_UNAVAILABLE"), ServiceErrorMessage(svc))
            /\ UNCHANGED delays
       ELSE /\ pc' = "backoff"
            /\ delays' = Append(delays, MinTimeout * Factor ^ retryCount)
            /\ responses' = Append(responses, Reply(503, "SERVICE_UNAVAILABLE"))
            /\ UNCHANGED err
  ELSE /\ IF rev = "C"
          THEN Finish(Reply(502, "Prediction service failed"), ServiceErrorMessage(svc))
          ELSE Finish(OuterCatch(rev, ServiceErrorMessage(svc)), ServiceErrorMessage(svc))
       /\ UNCHANGED delays

\* The answer to a scoring call that failed for good.
ExhaustedReply(r, s) ==
  CASE r = "D" -> Reply(503, "SERVICE_UNAVAILABLE")
    [] r = "C" -> Reply(502, "Prediction service failed")
    [] OTHER -> OuterCatch(r, ServiceErrorMessage(s))

\* A retry helper whose exponent counts from one.
ServiceThrowsLateExponent ==
  IF rev = "D" /\ retryCount < RetryRetries
  THEN /\ pc' = "backoff"
       /\ delays' = Append(delays, MinTimeout * Factor ^ (retryCount + 1))
       /\ UNCHANGED <<responses, err>>
  ELSE /\ Finish(ExhaustedReply(rev, svc), ServiceErrorMessage(svc))
       /\ UNCHANGED delays

\* callPythonService has thrown: the retry helper of revision D schedules the
\* next attempt or rejects; the other revisions answer at once.
ServiceThrows ==
  IF rev = "D" /\ retryCount < RetryRetries
  THEN /\ pc' = "backoff"
       /\ delays' = Append(delays, MinTimeout * Factor ^ retryCount)
       /\ UNCHANGED <<responses, err>>
  ELSE /\ Finish(ExhaustedReply(rev, svc), ServiceErrorMessage(svc))
       /\ UNCHANGED delays

\* An HTTP attempt fails: axios-retry retries it or the service throws.
HttpFails ==
  /\ pc = "score"
  /\ \E f \in HttpFailures :
       /\ lastFail' = f
       /\ failKinds' = IF f = "503" /\ failKinds \in {"none", "503"} THEN "503" ELSE "mixed"
       /\ IF HasAxiosRetry(svc) /\ retryCondition(f) /\ axiosRetries < AxiosRetries
          THEN /\ pc' = "axiosDelay"
               /\ axiosRetries' = axiosRetries + 1
               /\ UNCHANGED <<responses, err, delays, inFlight>>
          ELSE /\ ServiceThrows
               /\ inFlight' = inFlight - 1
               /\ UNCHANGED axiosRetries
  /\ UNCHANGED <<inputVars, user, patientData, predictionResponse, agg, patient, notification,
                 retryCount, svcCalls, httpCalls, sent, storeVars, mailVars>>

\* The delay of axios-retry has elapsed: the request is sent again.
AxiosRetryFires ==
  /\ pc = "axiosDelay"
  /\ pc' = "score"
  /\ httpCalls' = httpCalls + 1
  /\ sent' = {Payload(svc, patientData)}
  /\ UNCHANGED <<inputVars, inFlight, user, patientData, predictionResponse, agg,
                 patient, notification, err,
                 retryCount, axiosRetries, svcCalls, lastFail, failKinds, delays,
                 storeVars, mailVars, responses>>

\* A retry timer that does not wait for the attempt in flight to reject.
BackoffElapsedWhileInFlight ==
  /\ pc \in {"backoff", "score"}
  /\ retryCount < RetryRetries
  /\ pc' = "score"
  /\ retryCount' = retryCount + 1
  /\ svcCalls' = svcCalls + 1
  /\ inFlight' = inFlight + 1
  /\ httpCalls' = httpCalls + 1
  /\ sent' = {Payload(svc, patientData)}
  /\ axiosRetries' = 0
  /\ UNCHANGED <<inputVars, user, patientData, predictionResponse, agg, patient,
                 notification, err,
                 lastFail, failKinds, delays, storeVars, mailVars, responses>>

\* setTimeout(() => attempt(retryCount + 1), timeout) fires.
BackoffElapsed ==
  /\ pc = "backoff"
  /\ pc' = "score"
  /\ retryCount' = retryCount + 1
  /\ svcCalls' = svcCalls + 1
  /\ inFlight' = inFlight + 1
  /\ httpCalls' = httpCalls + 1
  /\ sent' = {Payload(svc, patientData)}
  /\ axiosRetries' = 0
  /\ UNCHANGED <<inputVars, user, patientData, predictionResponse, agg, patient,
                 notification, err,
                 lastFail, failKinds, delays, storeVars, mailVars, responses>>

\* What the controller does with the value callPythonService resolved with:
\* the checks on the response and the aggregation.  reply is {} when the
\* handler goes on to the persistence write.
ScoreVerdict(r, d) ==
  LET m == CHOOSE x \in d : TRUE
      a == processPredictionResults(r, m)
      thrown(message) == [agg |-> NoAgg, reply |-> {OuterCatch(r, message)},
                          message |-> message]
  IN CASE d = Undef /\ r \in {"A", "E"} ->
            thrown("Invalid response from prediction service")
       [] d = Undef /\ r = "B" ->
            thrown("Invalid prediction response")
       [] r = "C" /\ (d = Undef \/ Len(m) = 0) ->
            [agg |-> NoAgg,
             reply |-> {Reply(500, "Invalid response from prediction service")},
             message |-> "Invalid or empty prediction response"]
       [] r = "D" /\ (d = Undef \/ Len(m) = 0) ->
            [agg |-> NoAgg, reply |-> {Reply(503, "SERVICE_UNAVAILABLE")},
             message |-> "Empty prediction response"]
       [] OTHER ->
            CASE a.err = "TypeError" ->
                   [thrown("TypeError") EXCEPT !.agg = a]
              [] a.err = "Malformed" ->
                   [thrown("Malformed prediction data from model") EXCEPT !.agg = a]
              [] a.err = "NoValidModels" ->
                   [thrown("No valid prediction models found") EXCEPT !.agg = a]
              [] OTHER -> [agg |-> a, reply |-> {}, message |-> ""]

\* patientData after the prediction results are added to it.  Revision D
\* leaves enrichedData alone and builds the row in the create call.
WithResults(r, pd, a) ==
  IF r = "D" THEN pd
  ELSE [pd EXCEPT !.prediction = a.finalPrediction,
                  !.precentage = a.highest,
                  !.riskLevel = getRiskLevel(a.highest).riskLevel,
                  !.recommendation = getRiskLevel(a.highest).recommendation]

\* An HTTP attempt succeeds with response.data = d.
HttpSucceeds ==
  /\ pc = "score"
  /\ inFlight' = inFlight - 1
  /\ \E d \in PipeResponses :
       IF d = Undef /\ ChecksEmptyData(svc)
       THEN /\ lastFail' = "empty"
            /\ failKinds' = "mixed"
            /\ ServiceThrows
            /\ UNCHANGED <<predictionResponse, agg, patientData>>
       ELSE LET v == ScoreVerdict(rev, d)
            IN /\ lastFail' = "none"
               /\ predictionResponse' = d
               /\ agg' = v.agg
               /\ IF v.reply # {}
                  THEN /\ Finish(CHOOSE x \in v.reply : TRUE, v.message)
                       /\ UNCHANGED patientData
                  ELSE /\ pc' = "persist"
                       /\ patientData' = WithResults(rev, patientData, v.agg)
                       /\ UNCHANGED <<responses, err>>
               /\ UNCHANGED <<failKinds, delays>>
  /\ UNCHANGED <<inputVars, user, patient, notification, retryCount, axiosRetries, svcCalls,
                 httpCalls, sent, storeVars, mailVars>>

(***************************************************************************)
(* Persistence, notification row, email.                                   *)
(***************************************************************************)
\* x || false on an optional boolean.
OrFalse(x) == IF x = {TRUE} THEN x ELSE {FALSE}

\* The data createPatient hands to prisma.patient.create.
createPatient(s, pd) ==
  IF s = "F6"
  THEN [pd EXCEPT !.name = IF pd.name = "" THEN "Unknown Patient" ELSE pd.name,
                  !.prediction = OrFalse(pd.prediction),
                  !.precentage = OrZero(pd.precentage),
                  !.riskLevel = IF pd.riskLevel = "" THEN "Low" ELSE pd.riskLevel,
                  !.recommendation = IF pd.recommendation = "" THEN "No recommendation"
                                     ELSE pd.recommendation]
  ELSE pd

\* The data of prisma.patient.create in the transaction of revision D.
TransactionPatient(pd, a) ==
  [pd EXCEPT !.prediction = a.finalPrediction,
             !.confidence = a.highest,
             !.riskLevel = getRiskLevel(a.highest).riskLevel,
             !.recommendation = getRiskLevel(a.highest).recommendation,
             !.modelUsed = a.bestModel]

\* The message of the error a failed createPatient throws.
CreatePatientError(s, f) ==
  CASE s = "F4" /\ f = "P2003" -> "Invalid user reference"
    [] s = "F6" -> "Failed to create patient record"
    [] OTHER -> "Failed to create patient"

\* prediction ? 'Diabetic' : 'Not Diabetic'
Diabetic(prediction) == IF prediction = {TRUE} THEN "Diabetic" ELSE "Not Diabetic"

\* The data of prisma.notification.create.
NotificationData(r, row, a) ==
  CASE r = "B" -> [patientId |-> {row.Id}, riskLevel |-> getRiskLevel(a.highest).riskLevel,
                   prediction |-> ""]
    [] r = "D" -> [patientId |-> Undef, riskLevel |-> getRiskLevel(a.highest).riskLevel,
                   prediction |-> ""]
    [] r = "E" -> [patientId |-> Undef, riskLevel |-> row.riskLevel,
                   prediction |-> Diabetic(row.prediction)]
    [] OTHER -> [patientId |-> {row.Id}, riskLevel |-> row.riskLevel,
                 prediction |-> Diabetic(row.prediction)]

\* A row as the store returns it: the data and the generated key.
Stored(data, table) == [Id |-> Len(table) + 1] @@ data

\* The message of the error a failed persistence write ends in.
PersistError(r, s, f) ==
  IF r = "D" THEN "Failed to save prediction results" ELSE CreatePatientError(s, f)

\* The response after a failed persistence write.
PersistFailReply(r, message) ==
  IF r = "C" THEN Reply(500, "Failed to save patient data") ELSE OuterCatch(r, message)

\* The persistence write fails.
PersistFails ==
  /\ pc = "persist"
  /\ \E f \in StoreFailures :
       /\ storeFail' = f
       /\ Finish(PersistFailReply(rev, PersistError(rev, svc, f)), PersistError(rev, svc, f))
  /\ UNCHANGED <<inputVars, user, patientData, predictionResponse, agg, patient, notification,
                 scoreVars, patients, notifications, mailVars>>

\* A persistence step whose separate write is issued a second time.
PersistSucceedsTwice ==
  /\ pc = "persist"
  /\ IF rev = "D"
     THEN LET row == Stored(TransactionPatient(patientData, agg), patients)
              note == Stored(NotificationData(rev, row, agg), notifications)
          IN /\ patients' = Append(patients, row)
             /\ notifications' = Append(notifications, note)
             /\ patient' = {row}
             /\ notification' = {note}
             /\ emails' = emails + 1
             /\ mail' = "pending"
             /\ Finish(OuterCatch(rev, "startTime is not defined"),
                       "startTime is not defined")
     ELSE LET row == Stored(createPatient(svc, patientData), patients)
              again == Stored(createPatient(svc, patientData), Append(patients, row))
          IN /\ patients' = Append(Append(patients, row), again)
             /\ patient' = {again}
             /\ pc' = "notify"
             /\ UNCHANGED <<notifications, notification, mailVars, responses, err>>
  /\ UNCHANGED <<inputVars, user, patientData, predictionResponse, agg, scoreVars,
                 storeFail>>

\* The persistence write succeeds.  Revisions A, B, C, E have written the
\* patient row and go on to create the notification row; revision D has
\* written both rows, dispatches the email without awaiting it and then
\* reads startTime, which is declared nowhere.
PersistSucceeds ==
  /\ pc = "persist"
  /\ IF rev = "D"
     THEN LET row == Stored(TransactionPatient(patientData, agg), patients)
              note == Stored(NotificationData(rev, row, agg), notifications)
          IN /\ patients' = Append(patients, row)
             /\ notifications' = Append(notifications, note)
             /\ patient' = {row}
             /\ notification' = {note}
             /\ emails' = emails + 1
             /\ mail' = "pending"
             /\ Finish(OuterCatch(rev, "startTime is not defined"),
                       "startTime is not defined")
     ELSE LET row == Stored(createPatient(svc, patientData), patients)
          IN /\ patients' = Append(patients, row)
             /\ patient' = {row}
             /\ pc' = "notify"
             /\ UNCHANGED <<notifications, notification, mailVars, responses, err>>
  /\ UNCHANGED <<inputVars, user, patientData, predictionResponse, agg, scoreVars,
                 storeFail>>

\* prisma.notification.create rejects: revision C logs it and goes on.
NotifyFails ==
  /\ pc = "notify"
  /\ IF rev = "C"
     THEN /\ pc' = "email"
          /\ emails' = emails + 1
          /\ UNCHANGED <<responses, err>>
     ELSE /\ Finish(OuterCatch(rev, "notification.create failed"),
                    "notification.create failed")
          /\ UNCHANGED emails
  /\ UNCHANGED <<inputVars, user, patientData, predictionResponse, agg, patient, notification,
                 scoreVars, storeVars, mail>>

\* prisma.notification.create resolves; the email is sent and awaited.
NotifySucceeds ==
  /\ pc = "notify"
  /\ LET row == CHOOSE x \in patient : TRUE
         note == Stored(NotificationData(rev, row, agg), notifications)
     IN /\ notifications' = Append(notifications, note)
        /\ notification' = {note}
  /\ pc' = "email"
  /\ emails' = emails + 1
  /\ UNCHANGED <<inputVars, user, patientData, predictionResponse, agg, patient, err,
                 scoreVars, patients, storeFail, mail, responses>>

\* The notification variable of the handler as a list: empty when undefined.
NotesOf(n) == IF n = Undef THEN <<>> ELSE <<CHOOSE x \in n : TRUE>>

\* The success response of the revision.
SuccessReply(r, row, a, notes) ==
  LET n == IF r \in {"A", "C", "E"} /\ notes # <<>> THEN {notes[Len(notes)].Id} ELSE Undef
  IN IF r = "B"
     THEN [Reply(200, "") EXCEPT !.prediction = a.finalPrediction,
                                 !.precentage = a.highest,
                                 !.riskLevel = getRiskLevel(a.highest).riskLevel,
                                 !.recommendation = getRiskLevel(a.highest).recommendation]
     ELSE [Reply(200, "") EXCEPT !.prediction = row.prediction,
                                 !.precentage = row.precentage,
                                 !.riskLevel = row.riskLevel,
                                 !.recommendation = row.recommendation,
                                 !.notification = n]

\* sendEmailNotification returns: it has caught and logged a transport error.
EmailReturns ==
  /\ pc = "email"
  /\ \E o \in {"ok", "failed"} : mail' = o
  /\ Finish(SuccessReply(rev, CHOOSE x \in patient : TRUE, agg, NotesOf(notification)), "")
  /\ UNCHANGED <<inputVars, user, patientData, predictionResponse, agg, patient, notification,
                 scoreVars, storeVars, emails>>

\* The email revision D dispatched without awaiting settles.
EmailSettles ==
  /\ mail = "pending"
  /\ \E o \in {"ok", "failed"} : mail' = o
  /\ UNCHANGED <<inputVars, pc, user, patientData, predictionResponse, agg, patient,
                 notification, err,
                 scoreVars, storeVars, emails, responses>>

Next ==
  \/ PredictStart
  \/ UserLookupThrows
  \/ UserLookupReturns
  \/ HttpFails
  \/ HttpSucceeds
  \/ AxiosRetryFires
  \/ BackoffElapsed
  \/ PersistFails
  \/ PersistSucceeds
  \/ NotifyFails
  \/ NotifySucceeds
  \/ EmailReturns
  \/ EmailSettles

Spec == Init /\ [][Next]_vars

\* The event loop runs every continuation that is ready, and every call to a
\* collaborator resolves or rejects.
FairSpec == Spec /\ WF_vars(Next)

(***************************************************************************)
(* The aggregation step on its own: every response of up to MaxModels      *)
(* outcomes, under every controller revision.                              *)
(***************************************************************************)
InitAgg ==
  /\ rev \in Revs
  /\ svc = "F1"
  /\ reqUser = Undef
  /\ body = [age |-> "5"]
  /\ params = ""
  /\ options = PredictOptions
  /\ pc = "aggregate"
  /\ user = Undef
  /\ patientData = NoPatientData
  /\ predictionResponse \in {{m} : m \in Responses}
  /\ agg = NoAgg
  /\ patient = Undef
  /\ notification = Undef
  /\ err = ""
  /\ retryCount = 0
  /\ axiosRetries = 0
  /\ svcCalls = 0
  /\ httpCalls = 0
  /\ sent = Undef
  /\ inFlight = 0
  /\ lastFail = "none"
  /\ failKinds = "none"
  /\ delays = <<>>
  /\ patients = <<>>
  /\ notifications = <<>>
  /\ storeFail = "none"
  /\ emails = 0
  /\ mail = "none"
  /\ responses = <<>>

Aggregate ==
  /\ pc = "aggregate"
  /\ pc' = "aggregated"
  /\ agg' = processPredictionResults(rev, CHOOSE m \in predictionResponse : TRUE)
  /\ UNCHANGED <<inputVars, user, patientData, predictionResponse, patient, notification, err,
                 scoreVars, storeVars, mailVars, responses>>

NextAgg == Aggregate

SpecAgg == InitAgg /\ [][NextAgg]_vars

(***************************************************************************)
(* The risk classification on its own: every whole confidence from 0 to    *)
(* MaxConfidence, under every controller revision.                         *)
(***************************************************************************)
Confidences == 0..MaxConfidence

InitRisk ==
  /\ rev \in Revs
  /\ svc = "F1"
  /\ reqUser = Undef
  /\ body = [age |-> "5"]
  /\ params = ""
  /\ options = PredictOptions
  /\ pc = "classify"
  /\ user = Undef
  /\ patientData = NoPatientData
  /\ predictionResponse = Undef
  /\ agg \in {[NoAgg EXCEPT !.err = "", !.highest = {c}] : c \in Confidences}
  /\ patient = Undef
  /\ notification = Undef
  /\ err = ""
  /\ retryCount = 0
  /\ axiosRetries = 0
  /\ svcCalls = 0
  /\ httpCalls = 0
  /\ sent = Undef
  /\ inFlight = 0
  /\ lastFail = "none"
  /\ failKinds = "none"
  /\ delays = <<>>
  /\ patients = <<>>
  /\ notifications = <<>>
  /\ storeFail = "none"
  /\ emails = 0
  /\ mail = "none"
  /\ responses = <<>>

\* const { riskLevel, recommendation } = getRiskLevel(highestPrecentage)
Classify ==
  /\ pc = "classify"
  /\ pc' = "classified"
  /\ patientData' = [patientData EXCEPT
                       !.riskLevel = getRiskLevel(agg.highest).riskLevel,
                       !.recommendation = getRiskLevel(agg.highest).recommendation]
  /\ UNCHANGED <<inputVars, user, predictionResponse, agg, patient, notification, err,
                 scoreVars, storeVars, mailVars, responses>>

NextRisk == Classify

SpecRisk == InitRisk /\ [][NextRisk]_vars

(***************************************************************************)
(* The input normalisation on its own: every body of two measurements,     *)
(* under every controller revision.                                        *)
(***************************************************************************)
InitParse ==
  /\ rev \in Revs
  /\ svc = "F1"
  /\ reqUser = Undef
  /\ body \in ParseBodies
  /\ params = ""
  /\ options = PredictOptions
  /\ pc = "parse"
  /\ user = Undef
  /\ patientData = NoPatientData
  /\ predictionResponse = Undef
  /\ agg = NoAgg
  /\ patient = Undef
  /\ notification = Undef
  /\ err = ""
  /\ retryCount = 0
  /\ axiosRetries = 0
  /\ svcCalls = 0
  /\ httpCalls = 0
  /\ sent = Undef
  /\ inFlight = 0
  /\ lastFail = "none"
  /\ failKinds = "none"
  /\ delays = <<>>
  /\ patients = <<>>
  /\ notifications = <<>>
  /\ storeFail = "none"
  /\ emails = 0
  /\ mail = "none"
  /\ responses = <<>>

\* patientData = parsePatientData(req.body)
Parse ==
  /\ pc = "parse"
  /\ LET p == parsePatientData(rev, body)
     IN IF p.threw
        THEN /\ pc' = "threw"
             /\ err' = FieldError(p.field)
             /\ UNCHANGED patientData
        ELSE /\ pc' = "parsed"
             /\ patientData' = [NoPatientData EXCEPT !.Age = p.Age,
                                                     !.prediction = {FALSE},
                                                     !.precentage = {0}]
             /\ UNCHANGED err
  /\ UNCHANGED <<inputVars, user, predictionResponse, agg, patient, notification,
                 scoreVars, storeVars, mailVars, responses>>

NextParse == Parse

SpecParse == InitParse /\ [][NextParse]_vars

(***************************************************************************)
(* The read handlers getAllPatients and getPatientDetails, on a store       *)
(* holding patient rows of two users.                                      *)
(***************************************************************************)
Owners == {"u1", "u2"}

\* The rows of a Patient table filled by the given owners, in order.
RECURSIVE TableOf(_)
TableOf(owners) ==
  IF owners = <<>> THEN <<>>
  ELSE LET n == Len(owners)
       IN Append(TableOf(SubSeq(owners, 1, n - 1)), [Id |-> n, userId |-> {owners[n]}])

Tables == {TableOf(o) : o \in SeqsUpTo(Owners, MaxRows)}

\* req.params.id as it arrives.
RawIds == {"abc", "1", "2", "3"}

\* res.status(status).json(...) of a read handler; rows is the data sent.
ReadReply(status, error, rows) == [status |-> status, error |-> error, rows |-> rows]

RECURSIVE Reverse(_)
Reverse(q) == IF q = <<>> THEN <<>> ELSE Append(Reverse(Tail(q)), Head(q))

\* prisma.patient.findMany({ where: { userId } })
OwnedBy(table, uid) == SelectSeq(table, LAMBDA row : row.userId = uid)

\* appService.getAllPatients(userId): one revision filters by owner, newest
\* first; the others take no argument and return the whole table.
getAllPatients(s, table, uid) ==
  IF s = "F4" THEN Reverse(OwnedBy(table, uid)) ELSE table

\* prisma.patient.findUnique({ where: { Id: patientId } })
findUnique(table, id) == {table[i] : i \in {j \in 1..Len(table) : {table[j].Id} = id}}

InitRead ==
  /\ rev \in Revs
  /\ svc \in Svcs
  /\ reqUser \in {Undef} \cup {{u} : u \in Owners}
  /\ body = [age |-> "5"]
  /\ params \in RawIds
  /\ options = PredictOptions
  /\ pc \in {"getAllPatients", "getPatientDetails"}
  /\ user = Undef
  /\ patientData = NoPatientData
  /\ predictionResponse = Undef
  /\ agg = NoAgg
  /\ patient = Undef
  /\ notification = Undef
  /\ err = ""
  /\ retryCount = 0
  /\ axiosRetries = 0
  /\ svcCalls = 0
  /\ httpCalls = 0
  /\ sent = Undef
  /\ inFlight = 0
  /\ lastFail = "none"
  /\ failKinds = "none"
  /\ delays = <<>>
  /\ patients \in Tables
  /\ notifications = <<>>
  /\ storeFail = "none"
  /\ emails = 0
  /\ mail = "none"
  /\ responses = <<>>

\* return res.status(...).json(...) of a read handler.
Send(label, reply, message) ==
  /\ pc' = label
  /\ responses' = Append(responses, reply)
  /\ err' = message

ReadUnchanged ==
  UNCHANGED <<inputVars, user, patientData, predictionResponse, agg, patient, notification,
              scoreVars, storeVars, mailVars>>

\* getAllPatients: the authentication check, then the query is issued.
GetAllStart ==
  /\ pc = "getAllPatients"
  /\ IF reqUser = Undef
     THEN Send("sentAll", ReadReply(401, "User not authenticated", <<>>), "")
     ELSE pc' = "findMany" /\ UNCHANGED <<responses, err>>
  /\ ReadUnchanged

\* The query resolves.
FindManyReturns ==
  /\ pc = "findMany"
  /\ IF rev = "B"
     THEN Send("sentAll", ReadReply(200, "", getAllPatients(svc, patients, reqUser)), "")
     ELSE IF OwnedBy(patients, reqUser) = <<>>
          THEN Send("sentAll", ReadReply(404, "No patients found for this user.", <<>>), "")
          ELSE Send("sentAll", ReadReply(200, "", OwnedBy(patients, reqUser)), "")
  /\ ReadUnchanged

\* The query rejects.
FindManyThrows ==
  /\ pc = "findMany"
  /\ Send("sentAll", ReadReply(500, "Failed to fetch patients", <<>>), "Failed to fetch patients")
  /\ ReadUnchanged

\* getPatientDetails: the id is parsed, then the lookup is issued.
GetDetailsStart ==
  /\ pc = "getPatientDetails"
  /\ IF parseInt(params) = {}
     THEN Send("sentDetails", ReadReply(400, "Invalid patient ID", <<>>), "")
     ELSE pc' = "findUnique" /\ UNCHANGED <<responses, err>>
  /\ ReadUnchanged

\* The lookup resolves with the row of that Id or with null.
FindUniqueReturns ==
  /\ pc = "findUnique"
  /\ LET found == findUnique(patients, parseInt(params))
     IN IF found = {}
        THEN Send("sentDetails", ReadReply(404, "Patient not found", <<>>), "")
        ELSE Send("sentDetails", ReadReply(200, "", <<CHOOSE row \in found : TRUE>>), "")
  /\ ReadUnchanged

\* The lookup rejects.
FindUniqueThrows ==
  /\ pc = "findUnique"
  /\ Send("sentDetails", ReadReply(500, "Internal server error", <<>>), "Internal server error")
  /\ ReadUnchanged

NextRead ==
  \/ GetAllStart
  \/ FindManyReturns
  \/ FindManyThrows
  \/ GetDetailsStart
  \/ FindUniqueReturns
  \/ FindUniqueThrows

SpecRead == InitRead /\ [][NextRead]_vars

(***************************************************************************)
(* retry(fn, options) alone, for any number of retries.  fn returns a      *)
(* promise; its settlement and the reaction retry attached to it are one   *)
(* step.                                                                   *)
(***************************************************************************)
\* options.factor || 2
OrTwo(factor) == IF factor = Undef \/ factor = {0} THEN 2 ELSE CHOOSE x \in factor : TRUE

RetryOptions == [retries : 0..MaxRetries, minTimeout : {MinTimeout}, factor : {Undef, {2}, {3}}]

InitRetry ==
  /\ rev = "D"
  /\ svc = "F4"
  /\ reqUser = Undef
  /\ body = [age |-> "5"]
  /\ params = ""
  /\ options \in RetryOptions
  /\ pc = "retry"
  /\ user = Undef
  /\ patientData = NoPatientData
  /\ predictionResponse = Undef
  /\ agg = NoAgg
  /\ patient = Undef
  /\ notification = Undef
  /\ err = ""
  /\ retryCount = 0
  /\ axiosRetries = 0
  /\ svcCalls = 0
  /\ httpCalls = 0
  /\ sent = Undef
  /\ inFlight = 0
  /\ lastFail = "none"
  /\ failKinds = "none"
  /\ delays = <<>>
  /\ patients = <<>>
  /\ notifications = <<>>
  /\ storeFail = "none"
  /\ emails = 0
  /\ mail = "none"
  /\ responses = <<>>

RetryUnchanged ==
  UNCHANGED <<inputVars, user, patientData, agg, patient, notification, axiosRetries,
              httpCalls, sent, failKinds, storeVars, mailVars, responses>>

\* attempt(k): fn is invoked.
attempt(k) ==
  /\ pc' = "attempt"
  /\ retryCount' = k
  /\ svcCalls' = svcCalls + 1
  /\ inFlight' = inFlight + 1

\* The promise executor runs attempt(0).
RetryCalled ==
  /\ pc = "retry"
  /\ attempt(0)
  /\ UNCHANGED <<predictionResponse, err, lastFail, delays>>
  /\ RetryUnchanged

\* The promise of fn fulfils: .then(resolve).
FnFulfils ==
  /\ pc = "attempt"
  /\ \E d \in PipeResponses :
       /\ d # Undef
       /\ predictionResponse' = d
  /\ pc' = "resolved"
  /\ inFlight' = inFlight - 1
  /\ UNCHANGED <<err, lastFail, delays, retryCount, svcCalls>>
  /\ RetryUnchanged

\* A .catch handler that gives up one failure later.
FnRejectsOneLate ==
  /\ pc = "attempt"
  /\ \E e \in HttpFailures :
       /\ lastFail' = e
       /\ IF retryCount > options.retries
          THEN /\ pc' = "rejected"
               /\ err' = e
               /\ UNCHANGED delays
          ELSE /\ pc' = "timer"
               /\ delays' = Append(delays,
                                   options.minTimeout * OrTwo(options.factor) ^ retryCount)
               /\ UNCHANGED err
  /\ inFlight' = inFlight - 1
  /\ UNCHANGED <<predictionResponse, retryCount, svcCalls>>
  /\ RetryUnchanged

\* The promise of fn rejects: the .catch handler.
FnRejects ==
  /\ pc = "attempt"
  /\ \E e \in HttpFailures :
       /\ lastFail' = e
       /\ IF retryCount >= options.retries
          THEN /\ pc' = "rejected"
               /\ err' = e
               /\ UNCHANGED delays
          ELSE /\ pc' = "timer"
               /\ delays' = Append(delays,
                                   options.minTimeout * OrTwo(options.factor) ^ retryCount)
               /\ UNCHANGED err
  /\ inFlight' = inFlight - 1
  /\ UNCHANGED <<predictionResponse, retryCount, svcCalls>>
  /\ RetryUnchanged

\* setTimeout(() => attempt(retryCount + 1), timeout) fires.
TimerFires ==
  /\ pc = "timer"
  /\ attempt(retryCount + 1)
  /\ UNCHANGED <<predictionResponse, err, lastFail, delays>>
  /\ RetryUnchanged

NextRetry ==
  \/ RetryCalled
  \/ FnFulfils
  \/ FnRejects
  \/ TimerFires

SpecRetry == InitRetry /\ [][NextRetry]_vars

(***************************************************************************)
(* Two predict requests served concurrently by one revision.  Each         *)
(* handler-local variable is a function of the request; the tables and the *)
(* email count are shared.  The scoring call, retries included, is one     *)
(* suspension point that resolves with a response or rejects for good.     *)
(***************************************************************************)
Reqs == {1, 2}

\* The two requests carry different measurements.
PairBodies == [r \in Reqs |-> IF r = 1 THEN [age |-> "5"] ELSE [age |-> ""]]

\* Service revisions whose createPatient differs.
PairSvcs == {"F1", "F6"}

\* Well-formed single-model responses.
PairResponses ==
  {{<<o>>} : o \in {x \in PipeOutcomes : x.precentage # Undef /\ x.percentage = Undef}}

InitPair ==
  /\ rev \in Revs
  /\ svc \in PairSvcs
  /\ reqUser = [r \in Reqs |-> {"u1"}]
  /\ body = PairBodies
  /\ params = ""
  /\ options = PredictOptions
  /\ pc = [r \in Reqs |-> "lookup"]
  /\ user = [r \in Reqs |-> Undef]
  /\ patientData = [r \in Reqs |-> NoPatientData]
  /\ predictionResponse = [r \in Reqs |-> Undef]
  /\ agg = [r \in Reqs |-> NoAgg]
  /\ patient = [r \in Reqs |-> Undef]
  /\ notification = [r \in Reqs |-> Undef]
  /\ err = [r \in Reqs |-> ""]
  /\ retryCount = 0
  /\ axiosRetries = 0
  /\ svcCalls = 0
  /\ httpCalls = 0
  /\ sent = Undef
  /\ inFlight = 0
  /\ lastFail = "none"
  /\ failKinds = "none"
  /\ delays = <<>>
  /\ patients = <<>>
  /\ notifications = <<>>
  /\ storeFail = [r \in Reqs |-> "none"]
  /\ emails = 0
  /\ mail = [r \in Reqs |-> "none"]
  /\ responses = [r \in Reqs |-> <<>>]

\* return res.status(...).json(...) of request r.
PairFinish(r, reply, message) ==
  /\ pc' = [pc EXCEPT ![r] = "done"]
  /\ responses' = [responses EXCEPT ![r] = Append(@, reply)]
  /\ err' = [err EXCEPT ![r] = message]

\* Request r goes on to its next suspension point.
PairGoto(r, label) ==
  /\ pc' = [pc EXCEPT ![r] = label]
  /\ UNCHANGED <<responses, err>>

\* A patient variable shared by the handlers: the row created last.
LatestRow(r) == patients[Len(patients)]

\* The patient variable of the handler of request r.
HandlerRow(r) == CHOOSE x \in patient[r] : TRUE

\* The user lookup of request r returns.
PairLookupReturns(r) ==
  /\ pc[r] = "lookup"
  /\ \E u \in {Undef, {[name |-> "n1", email |-> "e1"]}} :
       /\ user' = [user EXCEPT ![r] = u]
       /\ IF UserRejected(rev, u)
          THEN /\ PairFinish(r, Reply(IF rev = "D" THEN 403 ELSE 404, "USER_NOT_FOUND"), "")
               /\ UNCHANGED patientData
          ELSE /\ patientData' =
                    [patientData EXCEPT ![r] = EnrichedData(rev, body[r], u, reqUser[r])]
               /\ PairGoto(r, "score")
  /\ UNCHANGED <<inputVars, predictionResponse, agg, patient, notification, scoreVars,
                 storeVars, mailVars>>

\* The scoring call of request r settles.
PairScoreSettles(r) ==
  /\ pc[r] = "score"
  /\ \/ /\ PairFinish(r, ExhaustedReply(rev, svc), ServiceErrorMessage(svc))
        /\ UNCHANGED <<predictionResponse, agg, patientData>>
     \/ \E d \in PairResponses :
          LET v == ScoreVerdict(rev, d)
          IN /\ predictionResponse' = [predictionResponse EXCEPT ![r] = d]
             /\ agg' = [agg EXCEPT ![r] = v.agg]
             /\ IF v.reply # {}
                THEN /\ PairFinish(r, CHOOSE x \in v.reply : TRUE, v.message)
                     /\ UNCHANGED patientData
                ELSE /\ patientData' =
                          [patientData EXCEPT ![r] = WithResults(rev, @, v.agg)]
                     /\ PairGoto(r, "persist")
  /\ UNCHANGED <<inputVars, user, patient, notification, scoreVars, storeVars, mailVars>>

\* The persistence write of request r settles.
PairPersistSettles(r) ==
  /\ pc[r] = "persist"
  /\ \/ \E f \in StoreFailures :
          /\ storeFail' = [storeFail EXCEPT ![r] = f]
          /\ PairFinish(r, PersistFailReply(rev, PersistError(rev, svc, f)),
                        PersistError(rev, svc, f))
          /\ UNCHANGED <<patients, notifications, patient, notification, mailVars>>
     \/ /\ rev = "D"
        /\ LET row == Stored(TransactionPatient(patientData[r], agg[r]), patients)
               note == Stored(NotificationData(rev, row, agg[r]), notifications)
           IN /\ patients' = Append(patients, row)
              /\ notifications' = Append(notifications, note)
              /\ patient' = [patient EXCEPT ![r] = {row}]
              /\ notification' = [notification EXCEPT ![r] = {note}]
        /\ emails' = emails + 1
        /\ mail' = [mail EXCEPT ![r] = "pending"]
        /\ PairFinish(r, OuterCatch(rev, "startTime is not defined"),
                      "startTime is not defined")
        /\ UNCHANGED storeFail
     \/ /\ rev # "D"
        /\ LET row == Stored(createPatient(svc, patientData[r]), patients)
           IN /\ patients' = Append(patients, row)
              /\ patient' = [patient EXCEPT ![r] = {row}]
        /\ PairGoto(r, "notify")
        /\ UNCHANGED <<notifications, notification, storeFail, mailVars>>
  /\ UNCHANGED <<inputVars, user, patientData, predictionResponse, agg, scoreVars>>

\* prisma.notification.create of request r settles.
PairNotifySettles(r) ==
  /\ pc[r] = "notify"
  /\ \/ /\ LET note == Stored(NotificationData(rev, HandlerRow(r), agg[r]), notifications)
           IN /\ notifications' = Append(notifications, note)
              /\ notification' = [notification EXCEPT ![r] = {note}]
        /\ emails' = emails + 1
        /\ PairGoto(r, "email")
     \/ /\ IF rev = "C"
           THEN PairGoto(r, "email") /\ emails' = emails + 1
           ELSE /\ PairFinish(r, OuterCatch(rev, "notification.create failed"),
                              "notification.create failed")
                /\ UNCHANGED emails
        /\ UNCHANGED <<notifications, notification>>
  /\ UNCHANGED <<inputVars, user, patientData, predictionResponse, agg, patient,
                 scoreVars, patients, storeFail, mail>>

\* sendEmailNotification of request r returns.
PairEmailReturns(r) ==
  /\ pc[r] = "email"
  /\ \E o \in {"ok", "failed"} : mail' = [mail EXCEPT ![r] = o]
  /\ PairFinish(r, SuccessReply(rev, HandlerRow(r), agg[r], NotesOf(notification[r])), "")
  /\ UNCHANGED <<inputVars, user, patientData, predictionResponse, agg, patient,
                 notification, scoreVars, storeVars, emails>>

NextPair ==
  \E r \in Reqs :
    \/ PairLookupReturns(r)
    \/ PairScoreSettles(r)
    \/ PairPersistSettles(r)
    \/ PairNotifySettles(r)
    \/ PairEmailReturns(r)

SpecPair == InitPair /\ [][NextPair]_vars

(***************************************************************************)
(* Properties.                                                             *)
(***************************************************************************)
\* The mapping the scoring service answered with (empty when it sent none).
Models == IF predictionResponse = Undef THEN <<>> ELSE CHOOSE m \in predictionResponse : TRUE

\* The outcome carries a numeric confidence and a decision under the field
\* names the revision reads.
WellFormed(r, o) == ConfOf(r, o) # Undef /\ DecisionOf(r, o) # Undef

AllWellFormed == Len(Models) >= 1 /\ \A i \in 1..Len(Models) : WellFormed(rev, Models[i])

\* The confidences of the response are all at most those of model i.
IsMax(i) == \A j \in 1..Len(Models) : ~Gt(ConfOf(rev, Models[j]), ConfOf(rev, Models[i]))

\* C1: for a response of N >= 1 well-formed outcomes the aggregation yields
\* the maximum confidence, and the decision and model name it adopts are
\* those of an outcome holding that maximum.
C1_MaxConfidence ==
  (pc = "aggregated" /\ AllWellFormed) =>
     /\ agg.err = ""
     /\ agg.bestModel \in 1..Len(Models)
     /\ IsMax(agg.bestModel)
     /\ agg.highest = ConfOf(rev, Models[agg.bestModel])
     /\ agg.finalPrediction = DecisionOf(rev, Models[agg.bestModel])

\* A later outcome with a strictly larger confidence has replaced the first.
C1_Witness ==
  /\ pc = "aggregated"
  /\ AllWellFormed
  /\ Len(Models) >= 2
  /\ agg.bestModel = 2
  /\ Gt(agg.highest, ConfOf(rev, Models[1]))
  /\ agg.finalPrediction # DecisionOf(rev, Models[1])

\* C2: when several outcomes share the maximum confidence the aggregation
\* selects the first of them in the order of the response mapping.
C2_FirstSeenTie ==
  (pc = "aggregated" /\ AllWellFormed) =>
     \A j \in 1..Len(Models) :
        ConfOf(rev, Models[j]) = agg.highest => agg.bestModel <= j

\* Two outcomes tie at the maximum with different decisions; the first is kept.
C2_Witness ==
  /\ pc = "aggregated"
  /\ AllWellFormed
  /\ Len(Models) >= 2
  /\ ConfOf(rev, Models[1]) = ConfOf(rev, Models[2])
  /\ IsMax(2)
  /\ DecisionOf(rev, Models[1]) # DecisionOf(rev, Models[2])
  /\ agg.bestModel = 1
  /\ agg.finalPrediction = DecisionOf(rev, Models[1])

\* The response the caller received (none while the handler runs).
Answered == Len(responses) >= 1

Answer == responses[Len(responses)]

\* C3: once a predict request has finished, its patient row exists if and
\* only if its notification row exists.
C3_TogetherOrNeither ==
  pc = "done" => (patients # <<>> <=> notifications # <<>>)

\* C4: an email transport failure after the persistence write succeeded
\* leaves the success result to the caller and the rows in place.
C4_EmailFailureStillSuccess ==
  (pc = "done" /\ mail = "failed" /\ patients # <<>> /\ notifications # <<>>) =>
     /\ Answer.status = 200
     /\ Len(patients) = 1
     /\ Len(notifications) = 1

\* C5: an email is dispatched only after the patient row and the
\* notification row of the request have been written.
C5_EmailOnlyAfterPersistence ==
  emails > 0 => (patients # <<>> /\ notifications # <<>>)

\* The final state a request reaches when its scoring call succeeds at the
\* first attempt with response d: the same steps, composed without any retry.
\* stored and notified are the results of the two store writes, message the
\* error the handler caught last.
FirstAttemptFinal(r, s, pd, d, stored, notified, message) ==
  LET v == ScoreVerdict(r, d)
      none == [responses |-> <<>>, patients |-> <<>>, notifications |-> <<>>, emails |-> 0]
      rowD == Stored(TransactionPatient(pd, v.agg), <<>>)
      row == Stored(createPatient(s, WithResults(r, pd, v.agg)), <<>>)
      noteD == <<Stored(NotificationData(r, rowD, v.agg), <<>>)>>
      note == <<Stored(NotificationData(r, row, v.agg), <<>>)>>
  IN CASE v.reply # {} ->
            [none EXCEPT !.responses = <<CHOOSE x \in v.reply : TRUE>>]
       [] v.reply = {} /\ ~stored ->
            [none EXCEPT !.responses = <<PersistFailReply(r, message)>>]
       [] v.reply = {} /\ stored /\ r = "D" ->
            [responses |-> <<OuterCatch(r, message)>>, patients |-> <<rowD>>,
             notifications |-> noteD, emails |-> 1]
       [] v.reply = {} /\ stored /\ r # "D" /\ notified ->
            [responses |-> <<SuccessReply(r, row, v.agg, note)>>, patients |-> <<row>>,
             notifications |-> note, emails |-> 1]
       [] v.reply = {} /\ stored /\ r = "C" /\ ~notified ->
            [responses |-> <<SuccessReply(r, row, v.agg, <<>>)>>, patients |-> <<row>>,
             notifications |-> <<>>, emails |-> 1]
       [] OTHER ->
            [responses |-> <<OuterCatch(r, message)>>, patients |-> <<row>>,
             notifications |-> <<>>, emails |-> 0]

\* The scoring call of the finished request resolved with a response.
ScoringResolved == pc = "done" /\ httpCalls >= 1 /\ lastFail = "none"

\* The attempts were 503, 503 and then a success.
FailedTwiceThenSucceeded == ScoringResolved /\ httpCalls = 3 /\ failKinds = "503"

\* C6: a request whose scoring call fails twice with 503 and succeeds at the
\* third attempt ends in the final state and with the response of a request
\* whose scoring call succeeds at the first attempt with the same response.
C6_RetriedEqualsFirstAttempt ==
  (ScoringResolved /\ (httpCalls = 1 \/ FailedTwiceThenSucceeded)) =>
     [responses |-> responses, patients |-> patients,
      notifications |-> notifications, emails |-> emails]
       = FirstAttemptFinal(rev, svc, EnrichedData(rev, body, user, reqUser),
                           predictionResponse, patients # <<>>, notifications # <<>>, err)

\* The retry helper has made its two retries and the request was persisted.
C6_Witness ==
  /\ FailedTwiceThenSucceeded
  /\ rev = "D"
  /\ retryCount = 2
  /\ delays = <<1000, 2000>>
  /\ Len(patients) = 1
  /\ Len(notifications) = 1

\* C7: when every scoring attempt fails the request ends with a
\* service-unavailable error and writes and sends nothing.
C7_ExhaustedIsUnavailable ==
  (pc = "done" /\ httpCalls >= 1 /\ lastFail \in HttpFailures) =>
     /\ Answer.status \in {502, 503}
     /\ patients = <<>>
     /\ notifications = <<>>
     /\ emails = 0

\* C8: after an attempt failed with a 4xx status no further attempt is
\* scheduled or issued by any retry layer.
C8_NoRetryAfter4xx ==
  lastFail = "4xx" => pc \notin {"axiosDelay", "backoff", "score"}

\* The errors the checks on the response and the aggregation raise.
MalformedResponseErrors ==
  {"TypeError", "Invalid or empty prediction response", "Empty prediction response",
   "No valid prediction models found"}

\* C9: an empty mapping makes predict fail with an error of the response
\* checks or the aggregation; nothing is written and no email is sent.
C9_EmptyMappingFails ==
  predictionResponse = {<<>>} =>
     /\ pc = "done"
     /\ Len(responses) = 1
     /\ Answer.status >= 500
     /\ err \in MalformedResponseErrors
     /\ patients = <<>>
     /\ notifications = <<>>
     /\ emails = 0

\* The aggregation of revision A ran into the empty mapping.
C9_Witness ==
  /\ predictionResponse = {<<>>}
  /\ rev = "A"
  /\ agg.err = "TypeError"
  /\ Answer.status = 500

\* The outcome has no numeric confidence under either spelling, or no decision.
Lacking(o) ==
  \/ (o.precentage = Undef /\ o.percentage = Undef)
  \/ (o.prediction = Undef /\ o.Prediction = Undef)

\* C10: a response with an outcome lacking a numeric confidence or a boolean
\* decision fails the request with a malformed-outcome error; nothing derived
\* from it is persisted.
C10_MalformedNeverPersisted ==
  (\E i \in 1..Len(Models) : Lacking(Models[i])) =>
     /\ patients = <<>>
     /\ pc \notin {"persist", "notify", "email"}
     /\ pc = "done" => agg.err = "Malformed" /\ agg.model >= 1

\* The confidence that was classified.
Classified == CHOOSE c \in agg.highest : TRUE

\* The tier of the left-inclusive, right-exclusive bands.
Tier(c) ==
  CASE c < 40 -> "Low"
    [] 40 <= c /\ c < 70 -> "Moderate"
    [] 70 <= c /\ c < 90 -> "High"
    [] c >= 90 -> "Critical"

\* C11: getRiskLevel maps every numeric confidence to the tier of its band,
\* Low below 40, Moderate from 40 below 70, High from 70 below 90, Critical
\* from 90, and always returns.
C11_RiskBands ==
  pc = "classified" =>
     /\ patientData.riskLevel = Tier(Classified)
     /\ patientData.riskLevel \in {"Low", "Moderate", "High", "Critical"}
     /\ patientData.recommendation # ""

\* The lower edge of the Critical band was classified.
C11_Witness ==
  /\ pc = "classified"
  /\ Classified = 90
  /\ patientData.riskLevel = "Critical"

\* C12: a predict request creates at most one patient row, and exactly one
\* when it answers with the success result; retried scoring attempts do not
\* add a second write.
C12_AtMostOnePatientRow ==
  /\ Len(patients) <= 1
  /\ (pc = "done" /\ Answer.status = 200) => Len(patients) = 1

\* A request that succeeded after retried scoring attempts.
C12_Witness ==
  /\ pc = "done"
  /\ Answer.status = 200
  /\ httpCalls = 3
  /\ Len(patients) = 1

\* The fields of the body that are missing or not numeric.
InvalidFields == {f \in DOMAIN body : InvalidField(body[f])}

\* C13: when several required fields are missing or non-numeric, the
\* validation failure names every one of them.
C13_NamesEveryInvalidField ==
  pc = "threw" => \A f \in InvalidFields : err = FieldError(f)

\* The raw value cannot be coerced to a number.
Uncoercible(raw) == parseInt(raw) = {}

\* C14: a required field whose raw value cannot be coerced to a number makes
\* parsePatientData fail and report the field; it is never delivered as 0 or
\* as NaN.
C14_UncoercibleIsReported ==
  (pc \in {"threw", "parsed"} /\ Uncoercible(body.age)) =>
     /\ pc = "threw"
     /\ err = FieldError("age")
     /\ patientData.Age \notin {{0}, {}}

\* The request ended because parsePatientData threw.
ValidationFailed == pc = "done" /\ err # "" /\ err = FieldError(FirstInvalid(body))

\* C15: a request whose input fails validation is answered with a client
\* error; the scoring service is not called, nothing is written and no email
\* is sent.
C15_ValidationIsClientError ==
  ValidationFailed =>
     /\ Answer.status >= 400
     /\ Answer.status < 500
     /\ svcCalls = 0
     /\ httpCalls = 0
     /\ retryCount = 0
     /\ patients = <<>>
     /\ notifications = <<>>
     /\ emails = 0

\* The request ended at the checks on a response the scoring call resolved with.
MalformedEnded == ScoringResolved /\ ScoreVerdict(rev, predictionResponse).reply # {}

\* C16: a malformed successful scoring response is reported to the caller
\* with an error that differs from the one reported when the scoring call
\* has failed for good.
C16_InvalidResponseIsDistinct ==
  MalformedEnded => Answer # ExhaustedReply(rev, svc)

\* The measurement fields the model carries.
MeasurementFields == {"Age"}

\* C17: the body sent to the scoring service holds the measurement fields
\* and nothing else of the record handed to callPythonService.
C17_OnlyMeasurementsSent ==
  \A p \in sent : DOMAIN p = MeasurementFields

\* The kind of persistence error a message of the code stands for.
PersistenceKind(message) ==
  CASE message = "Invalid user reference" -> "InvalidReference"
    [] message \in {"Failed to create patient", "Failed to create patient record",
                    "Failed to save prediction results"} -> "StoreUnavailable"
    [] OTHER -> "none"

\* The kind the cause of a store failure calls for.
KindOfCause(f) ==
  CASE f = "P2003" -> "InvalidReference"
    [] f = "P2002" -> "Conflict"
    [] OTHER -> "StoreUnavailable"

\* C18: a failed persistence write is classified by its cause, invalid
\* reference, conflict or store unavailable; the request fails with a server
\* error and none of its rows remains in the store.
C18_PersistenceErrorByCause ==
  (pc = "done" /\ storeFail # "none") =>
     /\ PersistenceKind(err) = KindOfCause(storeFail)
     /\ Answer.status >= 500
     /\ patients = <<>>
     /\ notifications = <<>>

\* The confidence of an outcome under whichever spelling carries it.
EitherSpelling(o) == Nullish(o.precentage, o.percentage)

\* C19: when every outcome carries its confidence under one of the two
\* spellings, the aggregation selects the maximum confidence over all
\* outcomes.
C19_EitherSpellingMax ==
  (/\ pc = "aggregated"
   /\ Len(Models) >= 1
   /\ \A i \in 1..Len(Models) : EitherSpelling(Models[i]) # Undef) =>
     /\ agg.err = ""
     /\ agg.highest # Undef
     /\ \A i \in 1..Len(Models) : ~Lt(agg.highest, EitherSpelling(Models[i]))
     /\ \E i \in 1..Len(Models) : agg.highest = EitherSpelling(Models[i])

\* The full success shape, or a structured error object.
SuccessShape(r) ==
  r.status = 200 /\ r.error = "" /\ r.riskLevel # "" /\ r.recommendation # ""

ErrorShape(r) == r.status >= 400 /\ r.error # ""

RowsSent == {Answer.rows[i] : i \in 1..Len(Answer.rows)}

\* C21: getPatientDetails returns a patient record only if the patient
\* belongs to the authenticated user making the request.
C21_DetailsOnlyToOwner ==
  (pc = "sentDetails" /\ Answer.status = 200) =>
     \A row \in RowsSent : row.userId = reqUser

\* C22: getAllPatients returns exactly the patient records whose owner is
\* the authenticated user, whichever service revision is behind it.
C22_AllPatientsOfOwnerOnly ==
  (pc = "sentAll" /\ Answer.status = 200) =>
     /\ \A row \in RowsSent : row.userId = reqUser
     /\ \A i \in 1..Len(patients) : patients[i].userId = reqUser => patients[i] \in RowsSent

\* C23: the attempts of the retry helper are sequential: never two
\* invocations of the scoring call in flight, and a further attempt starts
\* only after the previous one has rejected and its backoff has elapsed.
C23_SequentialAttempts ==
  /\ [](inFlight <= 1)
  /\ [][svcCalls' # svcCalls =>
          /\ inFlight = 0
          /\ inFlight' = 1
          /\ svcCalls >= 1 => (pc = "backoff" /\ lastFail # "none"
                                 /\ Len(delays) = svcCalls)]_vars

\* The third attempt of the retry helper is in flight.
C23_Witness ==
  /\ rev = "D"
  /\ pc = "score"
  /\ svcCalls = 3
  /\ inFlight = 1

\* C24: the delay before retry k is minTimeout * factor^k, 1000 ms and then
\* 2000 ms with the configuration of predict, and no delay is waited after
\* the final failed attempt.
C24_BackoffDelays ==
  /\ delays \in {<<>>, <<1000>>, <<1000, 2000>>}
  /\ \A k \in 0..(Len(delays) - 1) : delays[k + 1] = MinTimeout * Factor ^ k
  /\ Len(delays) = IF pc = "backoff" THEN retryCount + 1 ELSE retryCount
  /\ (pc = "done" /\ inFlight = 0 /\ svcCalls = RetryRetries + 1) => Len(delays) = RetryRetries

\* The retry helper has rejected after its last attempt.
C24_Witness ==
  /\ rev = "D"
  /\ pc = "done"
  /\ svcCalls = 3
  /\ lastFail \in HttpFailures
  /\ delays = <<1000, 2000>>

\* Both requests have been answered.
PairDone == \A r \in Reqs : pc[r] = "done"

\* Request q run alone on the tables pts and nts, with the outcomes its
\* collaborators gave it: its response, the tables after it and its rows.
Solo(q, pts, nts) ==
  LET u == user[q]
      d == predictionResponse[q]
      v == ScoreVerdict(rev, d)
      pd == WithResults(rev, EnrichedData(rev, body[q], u, reqUser[q]), v.agg)
      row == Stored(IF rev = "D" THEN TransactionPatient(pd, v.agg)
                                 ELSE createPatient(svc, pd), pts)
      note == Stored(NotificationData(rev, row, v.agg), nts)
      Out(reply, ps, ns, rw, nt) ==
        [response |-> reply, patients |-> ps, notifications |-> ns, row |-> rw, note |-> nt]
  IN IF UserRejected(rev, u)
     THEN Out(Reply(IF rev = "D" THEN 403 ELSE 404, "USER_NOT_FOUND"), pts, nts, Undef, Undef)
     ELSE IF d = Undef
     THEN Out(ExhaustedReply(rev, svc), pts, nts, Undef, Undef)
     ELSE IF v.reply # {}
     THEN Out(CHOOSE x \in v.reply : TRUE, pts, nts, Undef, Undef)
     ELSE IF storeFail[q] # "none"
     THEN Out(PersistFailReply(rev, PersistError(rev, svc, storeFail[q])), pts, nts,
              Undef, Undef)
     ELSE IF rev = "D"
     THEN Out(OuterCatch(rev, "startTime is not defined"), Append(pts, row),
              Append(nts, note), {row}, {note})
     ELSE IF notification[q] # Undef
     THEN Out(SuccessReply(rev, row, v.agg, <<note>>), Append(pts, row), Append(nts, note),
              {row}, {note})
     ELSE IF rev = "C"
     THEN Out(SuccessReply(rev, row, v.agg, <<>>), Append(pts, row), nts, {row}, Undef)
     ELSE Out(OuterCatch(rev, "notification.create failed"), Append(pts, row), nts,
              {row}, Undef)

\* The two requests run one after the other in the given order.
Serial(order) ==
  LET a == Solo(order[1], <<>>, <<>>)
      b == Solo(order[2], a.patients, a.notifications)
  IN [response |-> (order[1] :> a.response) @@ (order[2] :> b.response),
      patients |-> b.patients, notifications |-> b.notifications]

ReplyNoKeys(reply) ==
  [reply EXCEPT !.notification = IF @ = Undef THEN Undef ELSE {0}]

RowNoKeys(rows) == {[x EXCEPT !.Id = 0] : x \in rows}

NoteNoKeys(notes) ==
  {[x EXCEPT !.Id = 0, !.patientId = IF @ = Undef THEN Undef ELSE {0}] : x \in notes}

C26_CommittedMeansSuccess ==
  (pc = "done" /\ patient # Undef /\ patients # <<>>) =>
    /\ Answered
    /\ Answer.status = 200

\* C27: in every patient row written by predict the stored riskLevel is
\* getRiskLevel of the stored precentage, and the stored prediction and
\* precentage are those of the outcome aggregation selected.
C27_RowAgreesWithAggregation ==
  \A i \in 1..Len(patients) :
    /\ patients[i].riskLevel = getRiskLevel(patients[i].precentage).riskLevel
    /\ patients[i].prediction = agg.finalPrediction
    /\ patients[i].precentage = agg.highest

\* C28: retry(fn, {retries: n}) invokes fn at most n+1 times; it resolves
\* with the value of the first attempt that succeeds, every attempt before
\* it having failed, and does nothing after it; it rejects only after n+1
\* failed attempts, with the error of the last one.
C28_RetryContract ==
  /\ [](svcCalls <= options.retries + 1)
  /\ [](pc = "resolved" =>
          /\ predictionResponse # Undef
          /\ err = ""
          /\ Len(delays) = svcCalls - 1)
  /\ [](pc = "rejected" =>
          /\ svcCalls = options.retries + 1
          /\ Len(delays) = options.retries
          /\ err = lastFail
          /\ predictionResponse = Undef)
  /\ [][/\ pc \notin {"resolved", "rejected"}
        /\ pc' = "resolved" => (pc = "attempt" /\ svcCalls' = svcCalls)
        /\ pc' = "rejected" => (pc = "attempt" /\ svcCalls' = svcCalls)]_vars

\* The third attempt succeeded with one retry left.
C28_Witness ==
  /\ pc = "resolved"
  /\ options.retries = 3
  /\ svcCalls = 3
  /\ lastFail # "none"
  /\ predictionResponse # Undef

C30_OnlyForKnownUserWithEmail ==
  /\ (svcCalls > 0 \/ patients # <<>> \/ notifications # <<>> \/ emails > 0) =>
       /\ reqUser # Undef
       /\ user # Undef
       /\ \A x \in user : x.email # ""
  /\ (pc = "done" /\ reqUser = Undef) => Answer.status = 401
  /\ (pc = "done" /\ reqUser # Undef /\ user = Undef /\ err = "") =>
       Answer.status \in {403, 404}

====
